---- MODULE Spec2Model ----
(***************************************************************************)
(* A model of quadtree.py: Node (add_point, subdivide and the queries),    *)
(* the Feature wrapper for rectangular and empty geometries, and Point.    *)
(*                                                                         *)
(* A tree is a function from paths to node records; the path of a node is  *)
(* the sequence of child indices (1..4, the order of Node.children) that   *)
(* leads to it from the root, whose path is <<>>.                          *)
(*                                                                         *)
(* Coordinates are integers in units of 1/Scale of the side of the root    *)
(* rectangle, so that every halving made by subdivide is exact.            *)
(***************************************************************************)
EXTENDS Integers, Sequences, FiniteSets

\* ---------------------------------------------------------------- bounds
\* Depth of the interpreter's call stack at which a further call raises
\* RecursionError (sys.getrecursionlimit(), 1000 by default).
RecursionLimit == 10
\* Number of add_point calls made on the root.
MaxCalls == 3
\* Side of the root rectangle, in coordinate units.
Scale == 2 ^ RecursionLimit

\* ------------------------------------------------------------- constants
ROOT == 0
BRANCH == 1
LEAF == 2

\* The value of parent at the root.
None == {}

\* ---------------------------------------------------------------- points
\* A point is a record [x, y, data]; data = "tuple" stands for a bare
\* coordinate pair (x, y), any other data for Point(x, y, data).
tuple(x, y) == [x |-> x, y |-> y, data |-> "tuple"]

Point(x, y, data) == [x |-> x, y |-> y, data |-> data]

get_coords(point) == <<point.x, point.y>>

point_in_rectangle(point, rectangle) ==
    LET x == get_coords(point)[1]
        y == get_coords(point)[2]
    IN  /\ rectangle[1] <= x /\ x <= rectangle[3]
        /\ rectangle[2] <= y /\ y <= rectangle[4]

\* ----------------------------------------------------------------- nodes
Node(parent, rect, max_points) ==
    [parent |-> parent, children |-> <<>>, _points |-> <<>>,
     features |-> <<>>, number_of_points |-> 0, max_points |-> max_points,
     rectangle |-> rect, type |-> LEAF]

\* point_coords_in_bbox with the upper bounds excluded.
point_coords_in_bbox_half_open(node, point) ==
    LET x == get_coords(point)[1]
        y == get_coords(point)[2]
        x0 == node.rectangle[1]
        y0 == node.rectangle[2]
        x1 == node.rectangle[3]
        y1 == node.rectangle[4]
    IN  IF x0 <= x /\ x < x1 /\ y0 <= y /\ y < y1 THEN TRUE ELSE FALSE

\* point_coords_in_bbox without the test of y.
point_coords_in_bbox_x_only(node, point) ==
    LET x == get_coords(point)[1]
        x0 == node.rectangle[1]
        x1 == node.rectangle[3]
    IN  IF x0 <= x /\ x <= x1 THEN TRUE ELSE FALSE

point_coords_in_bbox(node, point) ==
    LET x == get_coords(point)[1]
        y == get_coords(point)[2]
        x0 == node.rectangle[1]
        y0 == node.rectangle[2]
        x1 == node.rectangle[3]
        y1 == node.rectangle[4]
    IN  IF x0 <= x /\ x <= x1 /\ y0 <= y /\ y <= y1 THEN TRUE ELSE FALSE

\* The tree t with the node at path replaced by node (or added).
Put(t, path, node) ==
    [q \in DOMAIN t \cup {path} |-> IF q = path THEN node ELSE t[q]]

\* An operation ends with the tree it leaves behind and with "ok" or the
\* name of the exception that it raised.
Return(t) == [t |-> t, err |-> "ok"]

\* (a variant of Raise that swallows the exception)
Raise_swallowed(t, exception) == [t |-> t, err |-> "ok"]

Raise(t, exception) == [t |-> t, err |-> exception]

\* rects without the bottom-right quadrant.
rects_three(rectangle) ==
    LET x0 == rectangle[1]
        y0 == rectangle[2]
        x1 == rectangle[3]
        y1 == rectangle[4]
        half_width == (x1 - x0) \div 2
        half_height == (y1 - y0) \div 2
    IN  << <<x0, y0, x0 + half_width, y0 + half_height>>,
           <<x0, y0 + half_height, x0 + half_width, y1>>,
           <<x0 + half_width, y0 + half_height, x1, y1>> >>

\* rects in row-major order: bottom-left, bottom-right, top-left, top-right.
rects_row_major(rectangle) ==
    LET x0 == rectangle[1]
        y0 == rectangle[2]
        x1 == rectangle[3]
        y1 == rectangle[4]
        half_width == (x1 - x0) \div 2
        half_height == (y1 - y0) \div 2
    IN  << <<x0, y0, x0 + half_width, y0 + half_height>>,
           <<x0 + half_width, y0, x1, y0 + half_height>>,
           <<x0, y0 + half_height, x0 + half_width, y1>>,
           <<x0 + half_width, y0 + half_height, x1, y1>> >>

\* The four child rectangles of subdivide, in the order of the list rects.
rects(rectangle) ==
    LET x0 == rectangle[1]
        y0 == rectangle[2]
        x1 == rectangle[3]
        y1 == rectangle[4]
        half_width == (x1 - x0) \div 2
        half_height == (y1 - y0) \div 2
    IN  << <<x0, y0, x0 + half_width, y0 + half_height>>,
           <<x0, y0 + half_height, x0 + half_width, y1>>,
           <<x0 + half_width, y0 + half_height, x1, y1>>,
           <<x0 + half_width, y0, x1, y0 + half_height>> >>

\* first_child without the break: the last child whose rectangle holds the
\* point gets it.
first_child_last(t, path, point) ==
    LET matches == {i \in 1..Len(t[path].children) :
                       point_coords_in_bbox(t[t[path].children[i]], point)}
    IN  IF matches = {} THEN 0
        ELSE CHOOSE i \in matches : \A j \in matches : j <= i

\* "for child in self.children: if child.point_coords_in_bbox(point): ...
\* break": the index of the first child whose rectangle holds the point,
\* 0 when the loop ends without a match.
first_child(t, path, point) ==
    LET matches == {i \in 1..Len(t[path].children) :
                       point_coords_in_bbox(t[t[path].children[i]], point)}
    IN  IF matches = {} THEN 0
        ELSE CHOOSE i \in matches : \A j \in matches : i <= j

\* count_key that sets the frequency to 1 also for a key already present.
count_key_once(_points, point) ==
    [k \in DOMAIN _points \cup {point} |->
        IF k \in DOMAIN _points /\ k # point THEN _points[k] ELSE 1]

\* self._points[point] += 1, or = 1 for a new key.
count_key(_points, point) ==
    [k \in DOMAIN _points \cup {point} |->
        IF k \in DOMAIN _points
        THEN (IF k = point THEN _points[k] + 1 ELSE _points[k])
        ELSE 1]

RECURSIVE add_point(_, _, _, _)
RECURSIVE subdivide(_, _, _)
RECURSIVE redistribute(_, _, _, _, _)

\* (a variant of add_point in which a BRANCH also appends the point to its
\* own features)
add_point_kept_on_path(t, path, point, f) ==
    IF f + 2 > RecursionLimit THEN Raise(t, "RecursionError")
    ELSE IF ~point_coords_in_bbox(t[path], point) THEN Raise(t, "Exception")
    ELSE IF t[path].type = LEAF
    THEN LET self == t[path]
             stored == [self EXCEPT
                          !._points = count_key(self._points, point),
                          !.features = Append(self.features, point),
                          !.number_of_points = self.number_of_points + 1]
             t1 == Put(t, path, stored)
         IN  IF Cardinality(DOMAIN stored._points) > stored.max_points
             THEN subdivide(t1, path, f + 1)
             ELSE Return(t1)
    ELSE LET i == first_child(t, path, point)
         IN  IF i = 0 THEN Return(t)
             ELSE LET r == add_point(t, t[path].children[i], point, f + 1)
                  IN  IF r.err # "ok" THEN r
                      ELSE Return([r.t EXCEPT
                                     ![path].number_of_points = @ + 1,
                                     ![path].features = Append(@, point)])

\* (a variant of add_point that subdivides one key later)
add_point_late(t, path, point, f) ==
    IF f + 2 > RecursionLimit THEN Raise(t, "RecursionError")
    ELSE IF ~point_coords_in_bbox(t[path], point) THEN Raise(t, "Exception")
    ELSE IF t[path].type = LEAF
    THEN LET self == t[path]
             stored == [self EXCEPT
                          !._points = count_key(self._points, point),
                          !.features = Append(self.features, point),
                          !.number_of_points = self.number_of_points + 1]
             t1 == Put(t, path, stored)
         IN  IF Cardinality(DOMAIN stored._points) > stored.max_points + 1
             THEN subdivide(t1, path, f + 1)
             ELSE Return(t1)
    ELSE LET i == first_child(t, path, point)
         IN  IF i = 0 THEN Return(t)
             ELSE LET r == add_point(t, t[path].children[i], point, f + 1)
                  IN  IF r.err # "ok" THEN r
                      ELSE Return([r.t EXCEPT ![path].number_of_points = @ + 1])

\* Node.add_point of the node at path, running in stack frame f.  The
\* bounds test calls point_coords_in_bbox (frame f + 1), which calls
\* get_coords (frame f + 2).
add_point(t, path, point, f) ==
    IF f + 2 > RecursionLimit THEN Raise(t, "RecursionError")
    ELSE IF ~point_coords_in_bbox(t[path], point) THEN Raise(t, "Exception")
    ELSE IF t[path].type = LEAF
    THEN LET self == t[path]
             stored == [self EXCEPT
                          !._points = count_key(self._points, point),
                          !.features = Append(self.features, point),
                          !.number_of_points = self.number_of_points + 1]
             t1 == Put(t, path, stored)
         IN  IF Cardinality(DOMAIN stored._points) > stored.max_points
             THEN subdivide(t1, path, f + 1)
             ELSE Return(t1)
    ELSE LET i == first_child(t, path, point)
         IN  IF i = 0 THEN Return(t)
             ELSE LET r == add_point(t, t[path].children[i], point, f + 1)
                  IN  IF r.err # "ok" THEN r
                      ELSE Return([r.t EXCEPT ![path].number_of_points = @ + 1])

\* (a variant of subdivide without the test for LEAF)
subdivide_unguarded(t, path, f) ==
    IF f > RecursionLimit THEN Raise(t, "RecursionError")
    ELSE LET self == t[path]
             features == self.features
             t1 == Put(t, path, [self EXCEPT !._points = <<>>,
                                             !.features = <<>>,
                                             !.type = BRANCH])
             rs == rects(self.rectangle)
             kids == [i \in DOMAIN rs |-> Append(path, i)]
             t2 == [q \in DOMAIN t1 \cup {kids[i] : i \in DOMAIN rs} |->
                       IF q = path THEN [t1[path] EXCEPT !.children = kids]
                       ELSE IF \E i \in DOMAIN rs : q = kids[i]
                       THEN Node({path},
                                 rs[CHOOSE i \in DOMAIN rs : q = kids[i]],
                                 self.max_points)
                       ELSE t1[q]]
         IN  IF f + 2 > RecursionLimit THEN Raise(t1, "RecursionError")
             ELSE redistribute(t2, path, features, 1, f)

\* Node.subdivide of the node at path, running in stack frame f.
\* Node.__init__ runs in frame f + 1 and its list comprehension over rect
\* in frame f + 2; when that raises, no child has been appended yet.
subdivide(t, path, f) ==
    IF f > RecursionLimit THEN Raise(t, "RecursionError")
    ELSE IF ~(t[path].type = LEAF) THEN Raise(t, "Exception")
    ELSE LET self == t[path]
             features == self.features
             t1 == Put(t, path, [self EXCEPT !._points = <<>>,
                                             !.features = <<>>,
                                             !.type = BRANCH])
             rs == rects(self.rectangle)
             kids == [i \in DOMAIN rs |-> Append(path, i)]
             t2 == [q \in DOMAIN t1 \cup {kids[i] : i \in DOMAIN rs} |->
                       IF q = path THEN [t1[path] EXCEPT !.children = kids]
                       ELSE IF \E i \in DOMAIN rs : q = kids[i]
                       THEN Node({path},
                                 rs[CHOOSE i \in DOMAIN rs : q = kids[i]],
                                 self.max_points)
                       ELSE t1[q]]
         IN  IF f + 2 > RecursionLimit THEN Raise(t1, "RecursionError")
             ELSE redistribute(t2, path, features, 1, f)

\* "for point in features: ..." of subdivide, from the i-th record on.
redistribute(t, path, features, i, f) ==
    IF i > Len(features) THEN Return(t)
    ELSE LET c == first_child(t, path, features[i])
         IN  IF c = 0 THEN redistribute(t, path, features, i + 1, f)
             ELSE LET r == add_point(t, t[path].children[c], features[i],
                                     f + 1)
                  IN  IF r.err # "ok" THEN r
                      ELSE redistribute(r.t, path, features, i + 1, f)

\* --------------------------------------------------------------- queries
\* Node.points: every key of _points, repeated as often as it was counted.
RECURSIVE points(_)
points(_points) ==
    IF DOMAIN _points = {} THEN <<>>
    ELSE LET k == CHOOSE k \in DOMAIN _points : TRUE
             rest == [q \in DOMAIN _points \ {k} |-> _points[q]]
         IN  [i \in 1.._points[k] |-> k] \o points(rest)

RECURSIVE get_all_points(_, _)
get_all_points(t, path) ==
    IF t[path].type = LEAF THEN t[path].features
    ELSE LET RECURSIVE extend(_)
             extend(i) ==
                 IF i > Len(t[path].children) THEN <<>>
                 ELSE get_all_points(t, t[path].children[i]) \o extend(i + 1)
         IN  extend(1)

RECURSIVE walk(_, _)
walk(t, path) ==
    IF t[path].type = LEAF THEN points(t[path]._points)
    ELSE LET RECURSIVE each(_)
             each(i) ==
                 IF i > Len(t[path].children) THEN <<>>
                 ELSE walk(t, t[path].children[i]) \o each(i + 1)
         IN  each(1)

\* Feature, for a geometry that is empty or the rectangular polygon
\* Polygon(bbox_to_coords(bounds)): [is_empty, bounds].  For such a polygon
\* geometry.intersects(point) and geometry.contains(polygon) hold exactly
\* when the point, or the four corners, lie within the closed bounds, and
\* geometry.disjoint(polygon) when the two closed rectangles share no point.
bbox_to_coords(bbox) ==
    << <<bbox[1], bbox[2]>>, <<bbox[3], bbox[2]>>,
       <<bbox[3], bbox[4]>>, <<bbox[1], bbox[4]>> >>

Feature(bounds) == [is_empty |-> FALSE, bounds |-> bounds]

EmptyFeature == [is_empty |-> TRUE, bounds |-> <<0, 0, 0, 0>>]

contains_point(feature, point) ==
    IF feature.is_empty THEN FALSE
    ELSE point_in_rectangle(point, feature.bounds)

contains_rectangle(feature, rectangle) ==
    IF feature.is_empty THEN FALSE
    ELSE LET corners == bbox_to_coords(rectangle)
         IN  \A i \in 1..4 :
                 point_in_rectangle(tuple(corners[i][1], corners[i][2]),
                                    feature.bounds)

\* (a variant of intersects_rectangle without the test for an empty geometry)
intersects_rectangle_of_bounds(feature, rectangle) ==
    /\ feature.bounds[1] <= rectangle[3]
    /\ rectangle[1] <= feature.bounds[3]
    /\ feature.bounds[2] <= rectangle[4]
    /\ rectangle[2] <= feature.bounds[4]

intersects_rectangle(feature, rectangle) ==
    IF feature.is_empty THEN FALSE
    ELSE /\ feature.bounds[1] <= rectangle[3]
         /\ rectangle[1] <= feature.bounds[3]
         /\ feature.bounds[2] <= rectangle[4]
         /\ rectangle[2] <= feature.bounds[4]

\* sum([...]) over the values of a sequence of numbers.
RECURSIVE sum(_)
sum(numbers) ==
    IF numbers = <<>> THEN 0 ELSE Head(numbers) + sum(Tail(numbers))

\* The sum of the frequencies of the keys that the feature contains.
RECURSIVE leaf_count(_, _)
leaf_count(_points, feature) ==
    IF DOMAIN _points = {} THEN 0
    ELSE LET k == CHOOSE k \in DOMAIN _points : TRUE
             rest == [q \in DOMAIN _points \ {k} |-> _points[q]]
         IN  (IF contains_point(feature, k) THEN _points[k] ELSE 0)
             + leaf_count(rest, feature)

RECURSIVE count_overlapping_points(_, _, _)
count_overlapping_points(t, path, feature) ==
    IF contains_rectangle(feature, t[path].rectangle)
    THEN t[path].number_of_points
    ELSE IF intersects_rectangle(feature, t[path].rectangle)
    THEN IF t[path].type = LEAF
         THEN leaf_count(t[path]._points, feature)
         ELSE sum([i \in 1..Len(t[path].children) |->
                     count_overlapping_points(t, t[path].children[i],
                                              feature)])
    ELSE 0

\* [point for point in features if feature.contains_point(point)]
RECURSIVE leaf_filter(_, _)
leaf_filter(features, feature) ==
    IF features = <<>> THEN <<>>
    ELSE (IF contains_point(feature, Head(features))
          THEN <<Head(features)>> ELSE <<>>)
         \o leaf_filter(Tail(features), feature)

RECURSIVE get_overlapping_points(_, _, _)
get_overlapping_points(t, path, feature) ==
    IF contains_rectangle(feature, t[path].rectangle)
    THEN get_all_points(t, path)
    ELSE IF intersects_rectangle(feature, t[path].rectangle)
    THEN IF t[path].type = LEAF
         THEN leaf_filter(t[path].features, feature)
         ELSE LET RECURSIVE extend(_)
                  extend(i) ==
                      IF i > Len(t[path].children) THEN <<>>
                      ELSE get_overlapping_points(t, t[path].children[i],
                                                  feature) \o extend(i + 1)
              IN  extend(1)
    ELSE <<>>

\* ----------------------------------------------------------------- state
VARIABLES
    nodes,      \* the tree: path -> node record
    last,       \* the last call: [op, point, path, err]
    inserted,   \* the points of the add_point calls that returned, in order
    failed,     \* the number of add_point calls that raised
    readers     \* the queries in progress: reader -> [pc, kind, feature,
                \* stack, result]

vars == <<nodes, last, inserted, failed, readers>>

\* The points offered to add_point: bare pairs inside the root rectangle,
\* on its centre and on its edge, one above the top edge, and two Point
\* values that share a coordinate and differ in their payload.
Points ==
    {tuple(Scale \div 4, Scale \div 4),
     tuple(Scale \div 2, Scale \div 2),
     tuple((3 * Scale) \div 4, (3 * Scale) \div 4),
     tuple(Scale, Scale \div 2),
     tuple(Scale \div 2, (5 * Scale) \div 4),
     Point(Scale \div 4, Scale \div 4, "a"),
     Point(Scale \div 4, Scale \div 4, "b")}

\* max_points given to the constructor.
Capacities == {1, 2}

\* Frames already on the stack when the caller makes a call.
CallerFrames == {0, 1}

NoPoint == tuple(0, 0)

\* The callers that run queries on the tree.
Readers == {1, 2}

\* A list object: the features list of the node at a path, or a list that
\* the running call has created; a number is carried in the same record.
features_list(t, path) ==
    [fresh |-> FALSE, node |-> path, items |-> t[path].features, number |-> 0]

new_list(items) ==
    [fresh |-> TRUE, node |-> <<>>, items |-> items, number |-> 0]

number(n) == [fresh |-> TRUE, node |-> <<>>, items |-> <<>>, number |-> n]

\* A reader that is running no query.
Idle ==
    [pc |-> "idle", kind |-> "none", feature |-> EmptyFeature,
     stack |-> <<>>, result |-> new_list(<<>>)]

Init ==
    /\ \E max_points \in Capacities :
          nodes = [q \in {<<>>} |-> Node(None, <<0, 0, Scale, Scale>>,
                                         max_points)]
    /\ last = [op |-> "Node", point |-> NoPoint, path |-> <<>>, err |-> "ok"]
    /\ inserted = <<>>
    /\ failed = 0
    /\ readers = [r \in Readers |-> Idle]

\* root.add_point(point)
AddPoint ==
    \E point \in Points, base \in CallerFrames :
        /\ Len(inserted) + failed < MaxCalls
        /\ LET r == add_point(nodes, <<>>, point, base + 1)
           IN  /\ nodes' = r.t
               /\ last' = [op |-> "add_point", point |-> point,
                           path |-> <<>>, err |-> r.err]
               /\ inserted' = IF r.err = "ok" THEN Append(inserted, point)
                              ELSE inserted
               /\ failed' = IF r.err = "ok" THEN failed ELSE failed + 1
        /\ UNCHANGED readers

\* root.subdivide()
Subdivide ==
    \E base \in CallerFrames :
        /\ LET r == subdivide(nodes, <<>>, base + 1)
           IN  /\ nodes' = r.t
               /\ last' = [op |-> "subdivide", point |-> NoPoint,
                           path |-> <<>>, err |-> r.err]
        /\ UNCHANGED <<inserted, failed, readers>>

Next == AddPoint \/ Subdivide

Spec == Init /\ [][Next]_vars

\* ------------------------------------------------------------ properties
root == <<>>

Branches(t) == {path \in DOMAIN t : t[path].type = BRANCH}

Leaves(t) == {path \in DOMAIN t : t[path].type = LEAF}

\* path is q or lies below q.
Below(path, q) == Len(q) <= Len(path) /\ SubSeq(path, 1, Len(q)) = q

Occurrences(records, e) == Cardinality({i \in DOMAIN records : records[i] = e})

SameRecords(r1, r2) ==
    /\ Len(r1) = Len(r2)
    /\ \A i \in DOMAIN r1 : Occurrences(r1, r1[i]) = Occurrences(r2, r1[i])

ChildrenTotal(t, path) ==
    sum([i \in 1..Len(t[path].children) |->
            t[t[path].children[i]].number_of_points])

InRootRectangle(point) ==
    /\ 0 <= point.x /\ point.x <= Scale
    /\ 0 <= point.y /\ point.y <= Scale

\* The regions of the queries: the root rectangle itself, a larger one, the
\* offset square of the tests, a square inside the first quadrant with
\* stored coordinates on its corners, a small square around the centre, a
\* rectangle outside of the root and the empty geometry.
Regions ==
    {Feature(<<0, 0, Scale, Scale>>),
     Feature(<<0 - Scale, 0 - Scale, 2 * Scale, 2 * Scale>>),
     Feature(<<Scale \div 2, Scale \div 2, (3 * Scale) \div 2,
               (3 * Scale) \div 2>>),
     Feature(<<Scale \div 4, Scale \div 4, Scale \div 2, Scale \div 2>>),
     Feature(<<(3 * Scale) \div 8, (3 * Scale) \div 8, (5 * Scale) \div 8,
               (5 * Scale) \div 8>>),
     Feature(<<(5 * Scale) \div 4, 0, (3 * Scale) \div 2, Scale>>),
     EmptyFeature}

\* C1: after any sequence of add_point and subdivide calls on the root, at
\* every node number_of_points is the sum of the children's number_of_points
\* (BRANCH) or the number of stored records (LEAF), and at the root it is the
\* number of add_point calls that returned without error.
C1_CountsAgree ==
    /\ \A path \in DOMAIN nodes :
          IF nodes[path].type = BRANCH
          THEN nodes[path].number_of_points = ChildrenTotal(nodes, path)
          ELSE nodes[path].number_of_points = Len(nodes[path].features)
    /\ nodes[root].number_of_points = Len(inserted)

\* C2: in a tree built by add_point calls that all returned,
\* count_overlapping_points(region) is the number of inserted points,
\* repeats counted, that region.contains_point accepts; it is
\* number_of_points when the region contains the root rectangle.
C2_CountIsContained ==
    failed = 0 =>
        \A region \in Regions :
            /\ count_overlapping_points(nodes, root, region)
                 = Cardinality({i \in DOMAIN inserted :
                                   contains_point(region, inserted[i])})
            /\ contains_rectangle(region, nodes[root].rectangle)
                 => count_overlapping_points(nodes, root, region)
                      = nodes[root].number_of_points

\* A BRANCH holding a repeated point and the centre, which lies on the
\* boundary of all four children; the offset square holds only the centre.
C2_Witness ==
    /\ failed = 0
    /\ nodes[root].type = BRANCH
    /\ Len(inserted) = 3
    /\ Occurrences(inserted, tuple(Scale \div 4, Scale \div 4)) = 2
    /\ Occurrences(inserted, tuple(Scale \div 2, Scale \div 2)) = 1
    /\ count_overlapping_points(nodes, root,
           Feature(<<Scale \div 2, Scale \div 2, (3 * Scale) \div 2,
                     (3 * Scale) \div 2>>)) = 1

\* C3: for every reachable tree, every node of it and every region,
\* count_overlapping_points(region) = len(get_overlapping_points(region)).
C3_CountIsLength ==
    \A region \in Regions : \A path \in DOMAIN nodes :
        count_overlapping_points(nodes, path, region)
          = Len(get_overlapping_points(nodes, path, region))

\* C4: an add_point at the one coordinate that all records of a LEAF
\* already have, whatever the payloads, leaves the node a LEAF.
C4_SameCoordinateKeepsLeaf ==
    [][(/\ last'.op = "add_point"
        /\ nodes[root].type = LEAF
        /\ InRootRectangle(last'.point)
        /\ \A i \in DOMAIN nodes[root].features :
              get_coords(nodes[root].features[i]) = get_coords(last'.point))
       => nodes'[root].type = LEAF]_vars

\* C5, as stated, for the calls that return: an add_point call that
\* subdivides a leaf makes exactly one subdivision.
C5_ExactlyOneSubdivision ==
    [][(/\ last'.op = "add_point"
        /\ last'.err = "ok"
        /\ Branches(nodes') # Branches(nodes))
       => Cardinality(Branches(nodes') \ Branches(nodes)) = 1]_vars

\* C5, amended: an add_point call that subdivides turns one LEAF of the
\* tree into a BRANCH (with four children when the call returns); every
\* other node that it subdivides is a descendant created by the same call.
C5_OneLeafThenDescendants ==
    [][(/\ last'.op = "add_point"
        /\ Branches(nodes') # Branches(nodes))
       => \E top \in Leaves(nodes) :
             /\ Branches(nodes') \ Branches(nodes)
                  = {path \in Branches(nodes') : Below(path, top)}
             /\ \A path \in Branches(nodes') \ Branches(nodes) :
                   path # top => path \notin DOMAIN nodes
             /\ last'.err = "ok" =>
                   \A path \in Branches(nodes') \ Branches(nodes) :
                       Len(nodes'[path].children) = 4]_vars

\* An add_point call has returned after a cascade of two subdivisions.
C5_Witness ==
    /\ last.op = "add_point"
    /\ last.err = "ok"
    /\ failed = 0
    /\ Len(inserted) = 2
    /\ Cardinality(Branches(nodes)) = 2

\* C6: every add_point call with a point inside the root rectangle returns.
C6_AddPointReturns ==
    (last.op = "add_point" /\ InRootRectangle(last.point)) => last.err = "ok"

\* C7: add_point with a point outside the closed root rectangle raises and
\* leaves the tree as it was; a point inside, on an edge or on a corner is
\* not rejected.
C7_OutOfBounds ==
    [][last'.op = "add_point" =>
          IF InRootRectangle(last'.point)
          THEN last'.err # "Exception"
          ELSE last'.err = "Exception" /\ nodes' = nodes]_vars

\* A point outside is refused by a BRANCH that holds a point of the edge.
C7_Witness ==
    /\ last.op = "add_point"
    /\ last.err = "Exception"
    /\ ~InRootRectangle(last.point)
    /\ nodes[root].type = BRANCH
    /\ \E i \in DOMAIN inserted : inserted[i] = tuple(Scale, Scale \div 2)

\* C8: a subdivide of a LEAF, called directly or by add_point after it has
\* stored the point, keeps number_of_points, empties the node's storage and
\* places every stored record in exactly one of four new children, whose
\* number_of_points sum to the node's.
C8_SubdivideConserves ==
    [][\A path \in Leaves(nodes) :
          path \in Branches(nodes') =>
             LET before == IF last'.op = "add_point"
                           THEN Append(nodes[path].features, last'.point)
                           ELSE nodes[path].features
             IN  /\ nodes'[path].number_of_points = Len(before)
                 /\ nodes'[path].features = <<>>
                 /\ DOMAIN nodes'[path]._points = {}
                 /\ Len(nodes'[path].children) = 4
                 /\ SameRecords(get_all_points(nodes', path), before)
                 /\ ChildrenTotal(nodes', path) = Len(before)]_vars

\* C9: every node is a LEAF without children or a BRANCH with exactly four
\* children and empty storage.
C9_LeafOrBranch ==
    \A path \in DOMAIN nodes :
        \/ /\ nodes[path].type = LEAF
           /\ nodes[path].children = <<>>
        \/ /\ nodes[path].type = BRANCH
           /\ Len(nodes[path].children) = 4
           /\ nodes[path].features = <<>>
           /\ DOMAIN nodes[path]._points = {}

\* C10: every record stored in a leaf lies within the closed rectangle of
\* the leaf and of each of its ancestors.
C10_RecordsInsideRectangles ==
    \A path \in Leaves(nodes) : \A i \in DOMAIN nodes[path].features :
        \A d \in 0..Len(path) :
            LET r == nodes[SubSeq(path, 1, d)].rectangle
                p == nodes[path].features[i]
            IN  /\ r[1] <= p.x /\ p.x <= r[3]
                /\ r[2] <= p.y /\ p.y <= r[4]

\* A leaf two levels below the root holds a record.
C10_Witness ==
    \E path \in Leaves(nodes) :
        Len(path) >= 2 /\ nodes[path].features # <<>>

\* The records stored in the leaves at and below path.
Stored(t, path) ==
    {<<q, i>> \in Leaves(t) \X (1..MaxCalls + 1) :
        Below(q, path) /\ i <= Len(t[q].features)}

InClosedRectangle(p, r) ==
    /\ r[1] <= p.x /\ p.x <= r[3]
    /\ r[2] <= p.y /\ p.y <= r[4]

\* C11: a record stored below a BRANCH lies below the first child, in the
\* order of children, whose closed rectangle holds its coordinates, whether
\* add_point or the redistribution of subdivide has put it there; hence
\* records of one coordinate share their leaf, no record is stored twice,
\* and while no call has raised every inserted point is stored once.
C11_FirstMatchingChild ==
    /\ \A path \in Branches(nodes) : \A i \in DOMAIN nodes[path].children :
          \A s \in Stored(nodes, nodes[path].children[i]) :
              \A j \in 1..(i - 1) :
                  ~InClosedRectangle(nodes[s[1]].features[s[2]],
                                     nodes[nodes[path].children[j]].rectangle)
    /\ \A s1 \in Stored(nodes, root) : \A s2 \in Stored(nodes, root) :
          get_coords(nodes[s1[1]].features[s1[2]])
            = get_coords(nodes[s2[1]].features[s2[2]]) => s1[1] = s2[1]
    /\ \A s \in Stored(nodes, root) :
          Occurrences(get_all_points(nodes, root),
                      nodes[s[1]].features[s[2]])
            <= Occurrences(inserted, nodes[s[1]].features[s[2]])
    /\ failed = 0 => SameRecords(get_all_points(nodes, root), inserted)

\* The centre, which all four children hold, was handed to the first child
\* by the redistribution of subdivide and once more by add_point.
C11_Witness ==
    /\ nodes[root].type = BRANCH
    /\ failed = 0
    /\ last.op = "add_point"
    /\ inserted = <<tuple(Scale \div 2, Scale \div 2),
                    tuple((3 * Scale) \div 4, (3 * Scale) \div 4),
                    tuple(Scale \div 2, Scale \div 2)>>
    /\ nodes[<<1>>].features = <<tuple(Scale \div 2, Scale \div 2),
                                 tuple(Scale \div 2, Scale \div 2)>>

\* Coordinates on a grid of sixteenths of the root's side.
GridCoords == {(k * Scale) \div 16 : k \in 0..16}

\* C12: the children that a subdivide has created are four, their
\* rectangles are the equal quadrants of the parent's, cut at its midlines,
\* in the order bottom-left, top-left, top-right, bottom-right, every point
\* of the parent's closed rectangle lies in the closed rectangle of a child,
\* and each child has the parent's max_points.
C12_FourEqualQuadrants ==
    \A path \in DOMAIN nodes :
        nodes[path].children # <<>> =>
            LET r == nodes[path].rectangle
                c == [i \in DOMAIN nodes[path].children |->
                         nodes[nodes[path].children[i]]]
                mid_x == r[1] + (r[3] - r[1]) \div 2
                mid_y == r[2] + (r[4] - r[2]) \div 2
            IN  /\ Len(nodes[path].children) = 4
                /\ 2 * mid_x = r[1] + r[3]
                /\ 2 * mid_y = r[2] + r[4]
                /\ c[1].rectangle = <<r[1], r[2], mid_x, mid_y>>
                /\ c[2].rectangle = <<r[1], mid_y, mid_x, r[4]>>
                /\ c[3].rectangle = <<mid_x, mid_y, r[3], r[4]>>
                /\ c[4].rectangle = <<mid_x, r[2], r[3], mid_y>>
                /\ \A i \in 1..4 : c[i].max_points = nodes[path].max_points
                /\ \A x \in GridCoords : \A y \in GridCoords :
                      InClosedRectangle([x |-> x, y |-> y], r) =>
                          \E i \in 1..4 :
                              InClosedRectangle([x |-> x, y |-> y],
                                                c[i].rectangle)

\* The root and its first child have been subdivided.
C12_Witness ==
    /\ nodes[root].type = BRANCH
    /\ <<1>> \in Branches(nodes)
    /\ nodes[<<1>>].children # <<>>
    /\ nodes[<<1, 3>>].rectangle
         = <<Scale \div 4, Scale \div 4, Scale \div 2, Scale \div 2>>

C16_SubdivideNonLeafFails ==
    [][(last'.op = "subdivide" /\ nodes[root].type # LEAF)
       => /\ last'.err = "Exception"
          /\ nodes'[root].children = nodes[root].children
          /\ nodes'[root].number_of_points = nodes[root].number_of_points
          /\ nodes' = nodes]_vars

\* subdivide has failed on a root with four children that hold two records.
C16_Witness ==
    /\ last.op = "subdivide" /\ last.err = "Exception"
    /\ nodes[root].type = BRANCH
    /\ Len(nodes[root].children) = 4
    /\ nodes[root].number_of_points = 2
    /\ Len(get_all_points(nodes, root)) = 2

\* C17: in every step every node stays in the tree with the rectangle it
\* was constructed with; a BRANCH stays a BRANCH with the same children, and
\* no node is replaced by a new one (a new node is an empty LEAF, so the
\* node's number_of_points would fall and its kind go back to LEAF).
C17_BranchesStay ==
    [][\A q \in DOMAIN nodes :
          /\ q \in DOMAIN nodes'
          /\ nodes'[q].rectangle = nodes[q].rectangle
          /\ nodes'[q].parent = nodes[q].parent
          /\ nodes'[q].number_of_points >= nodes[q].number_of_points
          /\ nodes[q].type = BRANCH =>
                /\ nodes'[q].type = BRANCH
                /\ nodes'[q].children = nodes[q].children]_vars

\* Three add_point calls have returned, the later ones on a root that was
\* already a BRANCH above a BRANCH.
C17_Witness ==
    /\ last.op = "add_point" /\ last.err = "ok"
    /\ Len(inserted) = 3 /\ failed = 0
    /\ nodes[root].type = BRANCH /\ nodes[root].max_points = 1
    /\ <<1>> \in Branches(nodes) /\ Len(nodes[<<1>>].children) = 4
    /\ inserted[1] = tuple(Scale \div 4, Scale \div 4)
    /\ inserted[2] = tuple(Scale \div 2, Scale \div 2)

\* How many of the records lie at the coordinate of point.
AtCoordinate(records, point) ==
    Cardinality({i \in DOMAIN records :
                    get_coords(records[i]) = get_coords(point)})

\* C18: walk() emits, at every coordinate, as many points as
\* get_all_points() holds there and as add_point calls have inserted there,
\* and number_of_points points in all.
C18_WalkEmitsEveryInsertion ==
    /\ \A point \in Points :
          /\ AtCoordinate(walk(nodes, root), point)
                = AtCoordinate(get_all_points(nodes, root), point)
          /\ AtCoordinate(walk(nodes, root), point)
                = AtCoordinate(inserted, point)
    /\ Len(walk(nodes, root)) = nodes[root].number_of_points

\* The node at which add_point(point), called on the node at path, stops
\* descending: it follows the first child that contains the point.
RECURSIVE route(_, _, _)
route(t, path, point) ==
    IF t[path].type = LEAF \/ first_child(t, path, point) = 0 THEN path
    ELSE route(t, t[path].children[first_child(t, path, point)], point)

\* C20: an add_point that returns leaves every node off the path it was
\* routed along as it was, changes the nodes above the end of that path only
\* by adding 1 to number_of_points, and creates nodes only below the end of
\* the path.
C20_OnlyTheRoutedPathChanges ==
    [][(last'.op = "add_point" /\ last'.err = "ok")
       => LET p == route(nodes, root, last'.point)
          IN  /\ \A q \in DOMAIN nodes :
                    /\ q \in DOMAIN nodes'
                    /\ ~Below(p, q) => nodes'[q] = nodes[q]
                    /\ (Below(p, q) /\ q # p) =>
                          nodes'[q] = [nodes[q] EXCEPT
                                          !.number_of_points = @ + 1]
              /\ \A q \in DOMAIN nodes' \ DOMAIN nodes :
                    Below(q, p) /\ q # p]_vars

\* The third add_point went through the root to the node <<3>>, which it
\* subdivided, while the node <<1>> beside the path holds the first record.
C20_Witness ==
    /\ last.op = "add_point" /\ last.err = "ok"
    /\ Len(inserted) = 3 /\ failed = 0
    /\ nodes[root].type = BRANCH /\ nodes[root].number_of_points = 3
    /\ nodes[<<1>>].type = LEAF /\ nodes[<<1>>].number_of_points = 1
    /\ <<3>> \in Branches(nodes) /\ nodes[<<3>>].number_of_points = 2
    /\ Len(nodes[<<3>>].children) = 4

\* -------------------------------------------------------------- QuadTree
\* max_points of the root that QuadTree.__init__ constructs.
QuadTreeMaxPoints == 11

\* QuadTree.find_bbox: the component-wise minimum and maximum, found by one
\* pass over the points that starts from the first one.
RECURSIVE find_bbox_from(_, _, _)
find_bbox_from(pts, i, box) ==
    IF i > Len(pts) THEN box
    ELSE LET x == get_coords(pts[i])[1]
             y == get_coords(pts[i])[2]
             minx == IF x < box[1] THEN x ELSE box[1]
             maxx == IF x > box[3] THEN x ELSE box[3]
             miny == IF y < box[2] THEN y ELSE box[2]
             maxy == IF y > box[4] THEN y ELSE box[4]
         IN  find_bbox_from(pts, i + 1, <<minx, miny, maxx, maxy>>)

find_bbox(pts) ==
    LET x == get_coords(pts[1])[1]
        y == get_coords(pts[1])[2]
    IN  find_bbox_from(pts, 1, <<x, y, x, y>>)

\* "for point in points: self.add_point(point)" from the i-th point on; the
\* result also tells how many calls have returned.
RECURSIVE add_points(_, _, _, _)
add_points(t, pts, i, f) ==
    IF i > Len(pts) THEN [t |-> t, err |-> "ok", added |-> i - 1]
    ELSE LET r == add_point(t, <<>>, pts[i], f + 1)
         IN  IF r.err # "ok"
             THEN [t |-> r.t, err |-> r.err, added |-> i - 1]
             ELSE add_points(r.t, pts, i + 1, f)

\* QuadTree.__init__(points), running in stack frame f.
QuadTree(pts, f) ==
    add_points([q \in {<<>>} |->
                   Node(None, find_bbox(pts), QuadTreeMaxPoints)],
               pts, 1, f)

\* Payloads of the Point values given to QuadTree.
Payloads ==
    <<"p1", "p2", "p3", "p4", "p5", "p6", "p7", "p8", "p9", "p10", "p11",
      "p12", "p13">>

\* The point lists given to QuadTree: every list of up to MaxCalls of the
\* points above, n Point values at one coordinate with n payloads, and n
\* bare pairs along the diagonal, for n up to QuadTreeMaxPoints + 2.
PointLists ==
    UNION {[1..n -> Points] : n \in 1..MaxCalls}
    \cup {[k \in 1..n |-> Point(Scale \div 4, Scale \div 4, Payloads[k])] :
             n \in 1..(QuadTreeMaxPoints + 2)}
    \cup {[k \in 1..n |-> tuple(((k - 1) * Scale) \div 16,
                                ((k - 1) * Scale) \div 16)] :
             n \in 1..(QuadTreeMaxPoints + 2)}

\* No QuadTree has been constructed yet.
InitQuadTree ==
    /\ nodes = <<>>
    /\ last = [op |-> "none", points |-> <<>>, err |-> "ok"]
    /\ inserted = <<>>
    /\ failed = 0
    /\ readers = [r \in Readers |-> Idle]

\* QuadTree(points)
NewQuadTree ==
    \E pts \in PointLists, base \in CallerFrames :
        /\ last.op = "none"
        /\ LET r == QuadTree(pts, base + 1)
           IN  /\ nodes' = r.t
               /\ last' = [op |-> "QuadTree", points |-> pts,
                           err |-> r.err]
               /\ inserted' = SubSeq(pts, 1, r.added)
               /\ failed' = IF r.err = "ok" THEN 0 ELSE 1
        /\ UNCHANGED readers

NextQuadTree == NewQuadTree

SpecQuadTree == InitQuadTree /\ [][NextQuadTree]_vars

\* C13: QuadTree(points) for a non-empty list builds a root whose rectangle
\* is the component-wise minimum and maximum of the points, no insertion
\* fails, and afterwards number_of_points and len(get_all_points()) are
\* len(points).
C13_QuadTreeHoldsAllPoints ==
    last.op = "QuadTree" =>
        LET xs == {last.points[i].x : i \in DOMAIN last.points}
            ys == {last.points[i].y : i \in DOMAIN last.points}
            r == nodes[root].rectangle
        IN  /\ last.err = "ok"
            /\ r[1] \in xs /\ \A x \in xs : r[1] <= x
            /\ r[2] \in ys /\ \A y \in ys : r[2] <= y
            /\ r[3] \in xs /\ \A x \in xs : x <= r[3]
            /\ r[4] \in ys /\ \A y \in ys : y <= r[4]
            /\ nodes[root].number_of_points = Len(last.points)
            /\ Len(get_all_points(nodes, root)) = Len(last.points)

\* ------------------------------------------------------- queries, stepwise
\* The queries as readers run them: one step enters one node, and the calls
\* of a query that have not returned are the frames [kind, path, i, output]
\* of the reader's stack, the innermost last.

\* (a variant of extend that appends to the argument instead)
extend_into_argument(t, output, other) ==
    LET items == other.items \o output.items
    IN  [t |-> IF other.fresh THEN t
               ELSE [t EXCEPT ![other.node].features = items],
         list |-> [output EXCEPT !.items = output.items \o other.items]]

\* output.extend(other): the list object output grows by the items of other;
\* when output is a node's features list, that node's list is the one that
\* grows.
extend(t, output, other) ==
    LET items == output.items \o other.items
    IN  [t |-> IF output.fresh THEN t
               ELSE [t EXCEPT ![output.node].features = items],
         list |-> [output EXCEPT !.items = items]]

\* What the call of a query on the node at path does before it descends:
\* it returns a value, or it goes on to loop over the children (as which
\* query: get_overlapping_points hands over to get_all_points when the
\* feature contains the rectangle).
enter(t, kind, feature, path) ==
    LET node == t[path]
        all == IF node.type = LEAF
               THEN [returns |-> TRUE, value |-> features_list(t, path)]
               ELSE [returns |-> FALSE, kind |-> "get_all_points"]
    IN  CASE kind = "get_all_points" -> all
          [] kind = "walk" ->
                IF node.type = LEAF
                THEN [returns |-> TRUE,
                      value |-> new_list(points(node._points))]
                ELSE [returns |-> FALSE, kind |-> kind]
          [] kind = "get_overlapping_points" ->
                IF contains_rectangle(feature, node.rectangle) THEN all
                ELSE IF intersects_rectangle(feature, node.rectangle)
                THEN IF node.type = LEAF
                     THEN [returns |-> TRUE,
                           value |-> new_list(leaf_filter(node.features,
                                                          feature))]
                     ELSE [returns |-> FALSE, kind |-> kind]
                ELSE [returns |-> TRUE, value |-> new_list(<<>>)]
          [] kind = "count_overlapping_points" ->
                IF contains_rectangle(feature, node.rectangle)
                THEN [returns |-> TRUE, value |-> number(node.number_of_points)]
                ELSE IF intersects_rectangle(feature, node.rectangle)
                THEN IF node.type = LEAF
                     THEN [returns |-> TRUE,
                           value |-> number(leaf_count(node._points, feature))]
                     ELSE [returns |-> FALSE, kind |-> kind]
                ELSE [returns |-> TRUE, value |-> number(0)]

\* A call returns value: the caller's frame takes it into its output (sum
\* adds it, extend and the loop of walk append it) and moves to the next
\* child, and returns its own output after the last child.
RECURSIVE deliver(_, _, _)
deliver(t, stack, value) ==
    IF stack = <<>>
    THEN [t |-> t, stack |-> stack, done |-> TRUE, result |-> value]
    ELSE LET top == stack[Len(stack)]
             a == IF top.kind = "count_overlapping_points"
                  THEN [t |-> t,
                        list |-> number(top.output.number + value.number)]
                  ELSE extend(t, top.output, value)
             frame == [top EXCEPT !.output = a.list, !.i = top.i + 1]
             callers == SubSeq(stack, 1, Len(stack) - 1)
         IN  IF frame.i > Len(t[top.path].children)
             THEN deliver(a.t, callers, frame.output)
             ELSE [t |-> a.t, stack |-> Append(callers, frame),
                   done |-> FALSE, result |-> new_list(<<>>)]

\* The call of query kind on the node at path, made from the innermost
\* frame of stack.
call(t, stack, kind, feature, path) ==
    LET e == enter(t, kind, feature, path)
        output == IF kind = "count_overlapping_points" THEN number(0)
                  ELSE new_list(<<>>)
    IN  IF e.returns THEN deliver(t, stack, e.value)
        ELSE IF t[path].children = <<>> THEN deliver(t, stack, output)
        ELSE [t |-> t,
              stack |-> Append(stack, [kind |-> e.kind, path |-> path,
                                       i |-> 1, output |-> output]),
              done |-> FALSE, result |-> new_list(<<>>)]

\* The queries the readers run: the two without a feature, and the two with
\* one for each of the regions.
Queries ==
    {[kind |-> k, feature |-> EmptyFeature] : k \in {"get_all_points", "walk"}}
    \cup {[kind |-> k, feature |-> g] :
             k \in {"count_overlapping_points", "get_overlapping_points"},
             g \in Regions}

\* The point lists from which the trees that the readers query are built.
QueryLists == UNION {[1..n -> Points] : n \in 0..2}

\* A tree built by add_point calls on a new root; no reader has started.
InitQueries ==
    \E max_points \in Capacities, pts \in QueryLists :
        LET r == add_points([q \in {<<>>} |->
                                Node(None, <<0, 0, Scale, Scale>>, max_points)],
                            pts, 1, 1)
        IN  /\ nodes = r.t
            /\ last = [op |-> "Node", point |-> NoPoint, path |-> <<>>,
                       err |-> r.err]
            /\ inserted = SubSeq(pts, 1, r.added)
            /\ failed = IF r.err = "ok" THEN 0 ELSE 1
            /\ readers = [r1 \in Readers |-> Idle]

\* Reader r calls a query on the root.
Begin(r) ==
    /\ readers[r].pc = "idle"
    /\ \E q \in Queries :
          LET c == call(nodes, <<>>, q.kind, q.feature, <<>>)
          IN  /\ nodes' = c.t
              /\ readers' = [readers EXCEPT ![r] =
                    [pc |-> IF c.done THEN "done" ELSE "running",
                     kind |-> q.kind, feature |-> q.feature,
                     stack |-> c.stack, result |-> c.result]]
    /\ UNCHANGED <<last, inserted, failed>>

\* The query of reader r goes on: its innermost call calls the next child.
Step(r) ==
    /\ readers[r].pc = "running"
    /\ LET stack == readers[r].stack
           top == stack[Len(stack)]
           c == call(nodes, stack, top.kind, readers[r].feature,
                     nodes[top.path].children[top.i])
       IN  /\ nodes' = c.t
           /\ readers' = [readers EXCEPT ![r] =
                 [@ EXCEPT !.pc = IF c.done THEN "done" ELSE "running",
                           !.stack = c.stack, !.result = c.result]]
    /\ UNCHANGED <<last, inserted, failed>>

NextQueries == \E r \in Readers : Begin(r) \/ Step(r)

SpecQueries == InitQueries /\ [][NextQueries]_vars

\* What the query of a reader returns when it runs alone on tree t.
Alone(t, reader) ==
    CASE reader.kind = "get_all_points" -> new_list(get_all_points(t, root))
      [] reader.kind = "walk" -> new_list(walk(t, root))
      [] reader.kind = "get_overlapping_points" ->
            new_list(get_overlapping_points(t, root, reader.feature))
      [] reader.kind = "count_overlapping_points" ->
            number(count_overlapping_points(t, root, reader.feature))

\* C14: no step of count_overlapping_points, get_overlapping_points,
\* get_all_points or walk changes any node (kind, rectangle, children,
\* storage, number_of_points), and however the steps of the readers'
\* queries interleave, each query returns what it returns when run alone.
C14_QueriesLeaveTreeUnchanged ==
    [][/\ nodes' = nodes
       /\ \A r \in Readers :
             readers'[r].pc = "done" =>
                /\ readers'[r].result.items = Alone(nodes, readers'[r]).items
                /\ readers'[r].result.number
                      = Alone(nodes, readers'[r]).number]_vars

\* Reader 1 has the records of a subdivided root from get_all_points while
\* reader 2 is between two children in get_overlapping_points.
C14_Witness ==
    /\ nodes[root].type = BRANCH
    /\ Len(nodes[root].children) = 4 /\ failed = 0
    /\ readers[1].pc = "done" /\ readers[1].kind = "get_all_points"
    /\ Len(readers[1].result.items) = 2
    /\ readers[2].pc = "running"
    /\ readers[2].kind = "get_overlapping_points"
    /\ readers[2].stack # <<>>
    /\ readers[2].stack[Len(readers[2].stack)].i > 1

\* The region is empty, or it lies wholly to one side of the rectangle.
EmptyOrApart(feature, rectangle) ==
    \/ feature.is_empty
    \/ feature.bounds[3] < rectangle[1] \/ rectangle[3] < feature.bounds[1]
    \/ feature.bounds[4] < rectangle[2] \/ rectangle[4] < feature.bounds[2]

\* C19: count_overlapping_points and get_overlapping_points with a region
\* that is empty or apart from the root's rectangle return 0 and [] from the
\* call on the root itself: the query never has a call on a child, pending
\* or made.
C19_ApartRegionFindsNothing ==
    \A r \in Readers :
        (/\ readers[r].kind \in {"count_overlapping_points",
                                 "get_overlapping_points"}
         /\ EmptyOrApart(readers[r].feature, nodes[root].rectangle))
        => /\ readers[r].pc = "done"
           /\ readers[r].stack = <<>>
           /\ readers[r].result.number = 0
           /\ readers[r].result.items = <<>>

\* On a subdivided root that holds two records, one reader has counted with
\* the empty region and the other has asked for the points of a region to
\* the right of the root's rectangle.
C19_Witness ==
    /\ nodes[root].type = BRANCH /\ nodes[root].number_of_points = 2
    /\ Len(nodes[root].children) = 4 /\ failed = 0
    /\ readers[1].pc = "done"
    /\ readers[1].kind = "count_overlapping_points"
    /\ readers[1].feature = EmptyFeature
    /\ readers[2].pc = "done"
    /\ readers[2].kind = "get_overlapping_points"
    /\ readers[2].feature = Feature(<<(5 * Scale) \div 4, 0,
                                      (3 * Scale) \div 2, Scale>>)

\* C21: in every leaf the frequency map agrees with the record list: the
\* keys are the records of features, the count of a key is the number of its
\* occurrences in features and is not 0, and the counts add up to
\* len(features).
C21_FrequenciesMatchFeatures ==
    \A q \in Leaves(nodes) :
        LET leaf == nodes[q]
        IN  /\ DOMAIN leaf._points
                  = {leaf.features[i] : i \in DOMAIN leaf.features}
            /\ \A k \in DOMAIN leaf._points :
                  /\ leaf._points[k] = Occurrences(leaf.features, k)
                  /\ leaf._points[k] # 0
            /\ Len(points(leaf._points)) = Len(leaf.features)

\* The third add_point overflowed the root; subdivide, and the subdivide of
\* the overflowing first child, rebuilt a leaf that holds one key twice.
C21_Witness ==
    /\ last.op = "add_point" /\ last.err = "ok" /\ failed = 0
    /\ inserted = <<tuple(Scale \div 4, Scale \div 4),
                    tuple(Scale \div 4, Scale \div 4),
                    tuple(Scale \div 2, Scale \div 2)>>
    /\ <<1, 1>> \in Leaves(nodes)
    /\ nodes[<<1, 1>>]._points[tuple(Scale \div 4, Scale \div 4)] = 2
    /\ Len(nodes[<<1, 1>>].features) = 2

\* C22: every LEAF holds at most max_points distinct keys in its frequency
\* map, whatever add_point and subdivide calls have been made, the leaves
\* that a subdivision has created included.
C22_LeavesWithinCapacity ==
    \A q \in Leaves(nodes) :
        Cardinality(DOMAIN nodes[q]._points) <= nodes[q].max_points

\* The third add_point overflowed a root of capacity 2, and subdivide created
\* a first child that is full: it holds two distinct keys.
C22_Witness ==
    /\ last.op = "add_point" /\ last.err = "ok" /\ failed = 0
    /\ Len(inserted) = 3
    /\ nodes[root].type = BRANCH /\ nodes[root].max_points = 2
    /\ <<1>> \in Leaves(nodes)
    /\ Cardinality(DOMAIN nodes[<<1>>]._points) = 2

====
